---- MODULE Spec2Model ----
(***************************************************************************)
(* A model of client/oci_env/utils.py: configuration resolution            *)
(* (read_env_file, get_config), profile resolution and compilation         *)
(* (parse_profiles) and the orchestration driver (class Compose).          *)
(*                                                                         *)
(* Strings are sequences of tokens.  A token is either one character that  *)
(* the code treats specially ("=", "#", "/", ":", "_", "{", "}", quotes,   *)
(* blank, tab, newline) or an atom standing for a run of ordinary          *)
(* characters ("API_HOST", "base", ...).  No token is a concatenation of   *)
(* other tokens, so two strings are equal exactly when their token         *)
(* sequences are equal.                                                    *)
(***************************************************************************)
EXTENDS Naturals, Sequences, FiniteSets, TLC

VARIABLES
    oci_env_path,      \* get_oci_env_path(): the run root
    env_file,          \* <run-root>/.compose.env: [exists, text]
    dirs,              \* the directories of the file system: path -> contents
    compiled,          \* <run-root>/.compiled: [exists, files: name -> text]
    pc,                \* position of the run
    user_preferences,  \* get_config's local: the result of read_env_file
    config,            \* Compose.config
    profile_paths,     \* parse_profiles' list of descriptors
    init_script,       \* parse_profiles' buffers
    env_output,
    compose_files,     \* parse_profiles' result, Compose.compose_files
    idx,               \* position of the compile loop in profile_paths
    status,            \* exit status of the process (0 while it runs)
    stdout,            \* the message printed by the fatal error, if any
    subprocess_calls,  \* the command lines handed to subprocess.call/run
    writes,            \* names of the files of .compiled written by this run
    runs,              \* number of the current invocation of the tool
    compiled0,         \* .compiled as it was when this invocation started
    prev,              \* outcome of the previous invocation
    changed            \* inputs edited since the previous invocation

vars == << oci_env_path, env_file, dirs, compiled, pc, user_preferences, config,
           profile_paths, init_script, env_output, compose_files, idx, status,
           stdout, subprocess_calls, writes, runs, compiled0, prev, changed >>

----------------------------------------------------------------------------
(* Python's string primitives, on token sequences.                         *)

Last(s) == s[Len(s)]

Contains(s, c) == \E i \in 1..Len(s) : s[i] = c

\* index of the first occurrence of c in s, 0 when there is none
RECURSIVE FindFrom(_, _, _)
FindFrom(s, c, i) ==
    IF i > Len(s) THEN 0
    ELSE IF s[i] = c THEN i
    ELSE FindFrom(s, c, i + 1)

Find(s, c) == FindFrom(s, c, 1)

\* s.split(sep): never empty; "".split(":") = [""]
RECURSIVE Split(_, _)
Split(s, sep) ==
    LET i == Find(s, sep)
    IN  IF i = 0 THEN << s >>
        ELSE << SubSeq(s, 1, i - 1) >> \o Split(SubSeq(s, i + 1, Len(s)), sep)

\* s.split(sep, maxsplit=1) for an s that contains sep
SplitFirst(s, sep) ==
    LET i == Find(s, sep)
    IN  << SubSeq(s, 1, i - 1), SubSeq(s, i + 1, Len(s)) >>

RECURSIVE LStrip(_, _)
LStrip(s, chars) ==
    IF s # << >> /\ Head(s) \in chars THEN LStrip(Tail(s), chars) ELSE s

RECURSIVE RStrip(_, _)
RStrip(s, chars) ==
    IF s # << >> /\ Last(s) \in chars THEN RStrip(SubSeq(s, 1, Len(s) - 1), chars)
    ELSE s

\* s.strip(chars)
Strip(s, chars) == RStrip(LStrip(s, chars), chars)

\* s.replace(a, b) for single characters a, b
Replace(s, a, b) == [i \in 1..Len(s) |-> IF s[i] = a THEN b ELSE s[i]]

\* sep.join(parts)
RECURSIVE JoinWith(_, _)
JoinWith(parts, sep) ==
    IF parts = << >> THEN << >>
    ELSE IF Len(parts) = 1 THEN parts[1]
    ELSE parts[1] \o << sep >> \o JoinWith(Tail(parts), sep)

\* iteration over a text file: the lines, each with its terminating newline
RECURSIVE ReadLines(_)
ReadLines(text) ==
    IF text = << >> THEN << >>
    ELSE LET i == Find(text, "\n")
         IN  IF i = 0 THEN << text >>
             ELSE << SubSeq(text, 1, i) >> \o ReadLines(SubSeq(text, i + 1, Len(text)))

\* {**a, **b}
Merge(a, b) ==
    [k \in DOMAIN a \cup DOMAIN b |-> IF k \in DOMAIN b THEN b[k] ELSE a[k]]

EmptyMap == [k \in {} |-> << >>]

----------------------------------------------------------------------------
(* read_env_file and get_config                                            *)

KeyStripChars == {"'", " ", "\""}
ValStripChars == {"'", " ", "\"", "\n"}

\* a variant of IsAssignment that takes comment lines for assignments
IsAssignment_NoComment(line) == Contains(line, "=")

\* the test of line 19
IsAssignment(line) ==
    /\ ~(line # << >> /\ Head(line) = "#")
    /\ Contains(line, "=")

\* the body of the loop of read_env_file, lines 19-22
RECURSIVE ReadEnvLines(_, _)
ReadEnvLines(lines, result) ==
    IF lines = << >> THEN result
    ELSE LET line == Head(lines)
             kv   == SplitFirst(line, "=")
             next == IF IsAssignment(line)
                     THEN Merge(result,
                                (Strip(kv[1], KeyStripChars)
                                     :> Strip(kv[2], ValStripChars)))
                     ELSE result
         IN  ReadEnvLines(Tail(lines), next)

\* read_env_file(path) for a file that exists
read_env_file(text) == ReadEnvLines(ReadLines(text), EmptyMap)

\* path.strip(os.sep).split(os.sep)[-1]
DirectoryName(path) == Last(Split(Strip(path, {"/"}), "/"))

constant_vals(path) ==
    (<< "OCI_ENV_DIRECTORY" >> :> DirectoryName(path))
        @@ (<< "COMPOSE_CONTEXT" >> :> path)

\* the defaults of get_config
default_config(path) ==
    (<< "DEV_SOURCE_PATH" >> :> << >>)
    @@ (<< "COMPOSE_PROFILE" >> :> << >>)
    @@ (<< "DJANGO_SUPERUSER_USERNAME" >> :> << "admin" >>)
    @@ (<< "DJANGO_SUPERUSER_PASSWORD" >> :> << "password" >>)
    @@ (<< "API_HOST" >> :> << "localhost" >>)
    @@ (<< "API_PORT" >> :> << "5001" >>)
    @@ (<< "API_PROTOCOL" >> :> << "http" >>)
    @@ (<< "COMPOSE_PROJECT_NAME" >> :> DirectoryName(path))
    @@ (<< "COMPOSE_BINARY" >> :> << "podman" >>)
    @@ (<< "API_CONTAINER" >> :> << "pulp" >>)
    @@ (<< "DB_CONTAINER" >> :> << "pulp" >>)
    @@ (<< "CONTENT_APP_CONTAINER" >> :> << "pulp" >>)
    @@ (<< "WORKER_CONTAINER" >> :> << "pulp" >>)
    @@ (<< "DEV_IMAGE_SUFFIX" >> :> << >>)
    @@ (<< "DEV_VOLUME_SUFFIX" >> :> << >>)
    @@ (<< "NGINX_PORT" >> :> << "5001" >>)
    @@ (<< "NGINX_SSL_PORT" >> :> << "443" >>)

\* a variant of get_config in which the user's file overrides the constants
get_config_UserLast(path, prefs) ==
    Merge(Merge(default_config(path), constant_vals(path)), prefs)

\* the mapping get_config returns, line 67
get_config(path, prefs) ==
    Merge(Merge(default_config(path), prefs), constant_vals(path))

----------------------------------------------------------------------------
(* os.path and str.format                                                  *)

\* os.path.join(a, b)
PathJoin(a, b) ==
    IF b # << >> /\ Head(b) = "/" THEN b
    ELSE IF a = << >> \/ Last(a) = "/" THEN a \o b
    ELSE a \o << "/" >> \o b

\* the segments of a path with "", "." dropped and ".." resolved
RECURSIVE Resolve(_, _)
Resolve(segments, acc) ==
    IF segments = << >> THEN acc
    ELSE LET s == Head(segments)
         IN  IF s = << >> \/ s = << "." >> THEN Resolve(Tail(segments), acc)
             ELSE IF s = << ".." >>
                  THEN Resolve(Tail(segments),
                               IF acc = << >> THEN acc
                               ELSE SubSeq(acc, 1, Len(acc) - 1))
             ELSE Resolve(Tail(segments), Append(acc, s))

\* os.path.abspath of an absolute path (os.path.normpath)
AbsPath(p) == << "/" >> \o JoinWith(Resolve(Split(p, "/"), << >>), "/")

\* os.path.isdir(p): the directory the path leads to exists
IsDir(p) == AbsPath(p) \in DOMAIN dirs

NoFile == [exists |-> FALSE, text |-> << >>]
File(text) == [exists |-> TRUE, text |-> text]

\* what a profile directory holds, an empty directory where there is none
NoDir == [init |-> FALSE, env |-> NoFile, compose |-> NoFile]
DirAt(p) == IF IsDir(p) THEN dirs[AbsPath(p)] ELSE NoDir

FormatOk(data) == [result |-> "ok", data |-> data]
FormatError(kind, data) == [result |-> kind, data |-> data]

\* literal text put in front of the formatted rest; an error of the rest stands
FormatCons(prefix, rest) ==
    IF rest.result = "ok" THEN FormatOk(prefix \o rest.data) ELSE rest

\* text.format(**mapping): "{{" and "}}" are braces, "{KEY}" is mapping[KEY];
\* the first error from the left is raised.  The templates of the model hold
\* no conversion, format specification, attribute or index in a field.
RECURSIVE Format(_, _)
Format(text, mapping) ==
    IF text = << >> THEN FormatOk(<< >>)
    ELSE IF Head(text) = "{"
    THEN IF Len(text) >= 2 /\ text[2] = "{"
         THEN FormatCons(<< "{" >>, Format(SubSeq(text, 3, Len(text)), mapping))
         ELSE LET j == Find(text, "}")
                  field == SubSeq(text, 2, j - 1)
              IN  IF j = 0 THEN FormatError("ValueError", << >>)
                  ELSE IF field = << >> THEN FormatError("IndexError", << >>)
                  ELSE IF field \notin DOMAIN mapping
                       THEN FormatError("KeyError", field)
                  ELSE FormatCons(mapping[field],
                                  Format(SubSeq(text, j + 1, Len(text)), mapping))
    ELSE IF Head(text) = "}"
    THEN IF Len(text) >= 2 /\ text[2] = "}"
         THEN FormatCons(<< "}" >>, Format(SubSeq(text, 3, Len(text)), mapping))
         ELSE FormatError("ValueError", << >>)
    ELSE FormatCons(<< Head(text) >>, Format(Tail(text), mapping))

----------------------------------------------------------------------------
(* parse_profiles: profile resolution                                      *)

RECURSIVE PathJoinAll(_)
PathJoinAll(parts) ==
    IF Len(parts) = 1 THEN parts[1]
    ELSE PathJoinAll(<< PathJoin(parts[1], parts[2]) >> \o SubSeq(parts, 3, Len(parts)))

compiled_path(path) == PathJoin(path, << ".compiled" >>)

\* the synthetic descriptor of lines 81-91
BaseDescriptor(path, oci_dir) ==
    [path |-> PathJoin(path, << "base" >>),
     name |-> << "base" >>,
     container_path |-> PathJoinAll(<< << "/", "src" >>, oci_dir, << "base" >> >>)]

\* a variant of Descriptor that looks for a plugin's profiles under the run
\* root instead of beside it
Descriptor_NoParent(profile, path, oci_dir) ==
    LET plugin == IF Contains(profile, "/") THEN SplitFirst(profile, "/")[1] ELSE oci_dir
        name   == IF Contains(profile, "/") THEN SplitFirst(profile, "/")[2] ELSE profile
    IN  [path |-> PathJoinAll(<< path, << "profiles" >>, name >>),
         name |-> profile,
         container_path |-> PathJoinAll(<< << "/", "src" >>, plugin,
                                           << "profiles" >>, name >>)]

\* the descriptor of one entry of COMPOSE_PROFILE, lines 95-104 and 110-119
Descriptor(profile, path, oci_dir) ==
    IF Contains(profile, "/")
    THEN LET plugin == SplitFirst(profile, "/")[1]
             name   == SplitFirst(profile, "/")[2]
         IN  [path |-> AbsPath(PathJoinAll(<< path, << ".." >>, plugin,
                                              << "profiles" >>, name >>)),
              name |-> profile,
              container_path |-> PathJoinAll(<< << "/", "src" >>, plugin,
                                                << "profiles" >>, name >>)]
    ELSE [path |-> PathJoinAll(<< path, << "profiles" >>, profile >>),
          name |-> profile,
          container_path |-> PathJoinAll(<< << "/", "src" >>, oci_dir,
                                            << "profiles" >>, profile >>)]

\* a variant of ResolveAll that puts each descriptor in front of the list
RECURSIVE ResolveAll_Prepend(_, _, _, _)
ResolveAll_Prepend(profiles, path, oci_dir, acc) ==
    IF profiles = << >> THEN [ok |-> TRUE, paths |-> acc, failed |-> << >>]
    ELSE LET d == Descriptor(Head(profiles), path, oci_dir)
         IN  IF ~IsDir(d.path)
             THEN [ok |-> FALSE, paths |-> acc, failed |-> << d >>]
             ELSE ResolveAll_Prepend(Tail(profiles), path, oci_dir, << d >> \o acc)

\* the loop of lines 94-119: the descriptors, or the first entry whose
\* directory does not exist
RECURSIVE ResolveAll(_, _, _, _)
ResolveAll(profiles, path, oci_dir, acc) ==
    IF profiles = << >> THEN [ok |-> TRUE, paths |-> acc, failed |-> << >>]
    ELSE LET d == Descriptor(Head(profiles), path, oci_dir)
         IN  IF ~IsDir(d.path)
             THEN [ok |-> FALSE, paths |-> acc, failed |-> << d >>]
             ELSE ResolveAll(Tail(profiles), path, oci_dir, Append(acc, d))

----------------------------------------------------------------------------
(* parse_profiles: compilation of one profile                              *)

Whitespace == {" ", "\t", "\n"}

\* the loop of lines 148-157 over the lines of pulp_config.env: the lines
\* formatted before the first error, and that error
RECURSIVE FormatLines(_, _, _)
FormatLines(lines, mapping, acc) ==
    IF lines = << >> THEN [result |-> "ok", lines |-> acc, data |-> << >>]
    ELSE LET r == Format(Strip(Head(lines), Whitespace), mapping)
         IN  IF r.result = "ok"
             THEN FormatLines(Tail(lines), mapping, Append(acc, r.data))
             ELSE [result |-> r.result, lines |-> acc, data |-> r.data]

\* a variant of CompiledComposeFile that keeps the reference as it is
CompiledComposeFile_Unsanitized(path, name) ==
    PathJoin(compiled_path(path), name \o << "_compose.yaml" >>)

\* lines 177-179: the compiled name of a profile's compose file
CompiledComposeFile(path, name) ==
    PathJoin(compiled_path(path), Replace(name, "/", "_") \o << "_compose.yaml" >>)

InitScriptHeader ==
    << << "#!/bin/bash" >>, << >>, << "# AUTOGENERATED by oci-env" >>,
       << "# This script runs automatically when the container starts." >>, << >> >>

\* a variant of WriteFile that opens the file for appending
WriteFile_Append(files, name, data) ==
    IF name \in DOMAIN files THEN Merge(files, name :> (files[name] \o data))
    ELSE Merge(files, name :> data)

\* open(name, "w").write(data) in a directory holding files
WriteFile(files, name, data) == Merge(files, name :> data)

NoMessage == [kind |-> "none", where |-> << >>, what |-> << >>]
Message(kind, where, what) == [kind |-> kind, where |-> where, what |-> what]

----------------------------------------------------------------------------
(* Bounds and inputs                                                       *)

MaxProfiles == 2   \* entries of COMPOSE_PROFILE
MaxCalls == 1      \* subprocess invocations of one Compose object
MaxRuns == 2       \* invocations of the tool, one after the other
MaxFileLen == 4    \* characters of a free-form .compose.env

RunRoot == << "/", "w", "/", "oci_env" >>

BaseDir == RunRoot \o << "/", "base" >>
ProfilesDir == RunRoot \o << "/", "profiles" >>
LocalBaseDir == ProfilesDir \o << "/", "base" >>
LocalPbDir == ProfilesDir \o << "/", "p", "_", "b" >>
PluginPbDir == << "/", "w", "/", "p", "/", "profiles", "/", "b" >>

\* a profile directory of each kind, its files naming the directory
Contents(kind, d) ==
    CASE kind = "Bare" -> NoDir
      [] kind = "Full" ->
            [init |-> TRUE,
             env |-> File(<< " ", "HOST", "=", "{", "API_HOST", "}", "\t", "\n" >>
                          \o d \o << "=", "1" >>),
             compose |-> File(d \o << " ", "{", "API_HOST", "}", "\n" >>)]
      [] kind = "VarC" ->
            [init |-> FALSE,
             env |-> NoFile,
             compose |-> File(d \o << " ", "{", "MY_VAR", "}", "{", "{", "}", "}" >>)]
      [] kind = "VarE" ->
            [init |-> TRUE,
             env |-> File(d \o << "=", "1", "\n", "V", "=", "{", "MY_VAR", "}", "\n" >>),
             compose |-> File(<< "{", "MY_VAR", "}", " " >> \o d)]
      [] kind = "Bad" ->
            [init |-> TRUE,
             env |-> NoFile,
             compose |-> File(d \o << "}" >>)]

\* the file system in which each directory is of the kind given (or absent)
FileSystem(kinds) ==
    [d \in {x \in DOMAIN kinds : kinds[x] # "Absent"} |-> Contents(kinds[d], d)]

\* a directory exists only inside an existing one
WellFormed(kinds) ==
    kinds[ProfilesDir] = "Absent"
        => kinds[LocalBaseDir] = "Absent" /\ kinds[LocalPbDir] = "Absent"

DirKinds ==
    [ {BaseDir, ProfilesDir, LocalBaseDir, LocalPbDir, PluginPbDir}
        -> {"Absent", "Bare", "Full", "VarC", "VarE", "Bad"} ]

FileSystems ==
    { FileSystem(k) :
        k \in { k \in DirKinds :
                  /\ WellFormed(k)
                  /\ k[BaseDir] \in {"Full", "VarE"}
                  /\ k[ProfilesDir] \in {"Absent", "Bare"}
                  /\ k[LocalBaseDir] \in {"Absent", "Full", "VarC"}
                  /\ k[LocalPbDir] \in {"Absent", "Full", "Bad"}
                  /\ k[PluginPbDir] \in {"Absent", "Full", "VarC", "VarE"} } }

ProfileRefs == { << >>, << "base" >>, << "p", "/", "b" >>, << "p", "_", "b" >> }

ProfileLists(n) ==
    { JoinWith(l, ":") : l \in UNION { [1..k -> ProfileRefs] : k \in 1..n } }

MyVarLine == << "MY_VAR", "=", "'", "on", "'", "\n" >>
ProfileLine(list) == << "COMPOSE_PROFILE", "=" >> \o list \o << "\n" >>

\* the .compose.env files of the runs: MY_VAR set or not, COMPOSE_PROFILE
\* set or left at its default
EnvFiles(lists) ==
    { NoFile } \cup
    { File(v \o l) : v \in { << >>, MyVarLine },
                     l \in { << >> } \cup { ProfileLine(x) : x \in lists } }

----------------------------------------------------------------------------
(* The run: Compose.__init__ and the methods of the object                 *)

StartOfRun ==
    /\ pc = "start"
    /\ user_preferences = EmptyMap
    /\ config = EmptyMap
    /\ profile_paths = << >>
    /\ init_script = << >>
    /\ env_output = << >>
    /\ compose_files = << >>
    /\ idx = 0
    /\ status = 0
    /\ stdout = NoMessage
    /\ subprocess_calls = << >>
    /\ writes = << >>

FirstRun ==
    /\ StartOfRun
    /\ compiled = [exists |-> FALSE, files |-> EmptyMap]
    /\ runs = 1
    /\ compiled0 = compiled
    /\ prev = [ok |-> FALSE, files |-> << >>]
    /\ changed = FALSE

Init ==
    /\ oci_env_path = RunRoot
    /\ env_file \in EnvFiles(ProfileLists(MaxProfiles))
    /\ dirs \in FileSystems
    /\ FirstRun

\* the process ends: exit(1), or an exception nothing catches
Terminate(how, message) ==
    /\ pc' = how
    /\ status' = 1
    /\ stdout' = message

\* self.config = get_config(), lines 31-67 and 10-28
GetConfig ==
    /\ pc = "start"
    /\ IF ~env_file.exists
       THEN /\ Terminate("exited",
                         Message("NoComposeEnv",
                                 PathJoin(oci_env_path, << ".compose.env" >>), << >>))
            /\ UNCHANGED << user_preferences, config >>
       ELSE /\ user_preferences' = read_env_file(env_file.text)
            /\ config' = get_config(oci_env_path, read_env_file(env_file.text))
            /\ pc' = "config"
            /\ UNCHANGED << status, stdout >>
    /\ UNCHANGED << oci_env_path, env_file, dirs, compiled, profile_paths, init_script,
                    env_output, compose_files, idx, subprocess_calls, writes, runs,
                    compiled0, prev, changed >>

\* parse_profiles, lines 74-131
ResolveProfiles ==
    /\ pc = "config"
    /\ LET oci_dir == config[<< "OCI_ENV_DIRECTORY" >>]
           r == ResolveAll(Split(config[<< "COMPOSE_PROFILE" >>], ":"), oci_env_path,
                           oci_dir, << BaseDescriptor(oci_env_path, oci_dir) >>)
       IN  /\ compiled' = [compiled EXCEPT !.exists = TRUE]
           /\ profile_paths' = r.paths
           /\ IF r.ok
              THEN /\ init_script' = InitScriptHeader
                   /\ idx' = 1
                   /\ pc' = "compile"
                   /\ UNCHANGED << status, stdout >>
              ELSE /\ Terminate("exited",
                                Message("ProfileNotFound", r.failed[1].path,
                                        r.failed[1].name))
                   /\ UNCHANGED << init_script, idx >>
    /\ UNCHANGED << oci_env_path, env_file, dirs, user_preferences, config, env_output,
                    compose_files, subprocess_calls, writes, runs, compiled0, prev,
                    changed >>


\* lines 140-142: the init script with this profile's line, if it has one
WithInitScript(script, profile) ==
    IF DirAt(profile.path).init
    THEN Append(script, << "bash", " " >>
                            \o PathJoin(profile.container_path, << "init.sh" >>))
    ELSE script

\* lines 146-159: pulp_config.env formatted line by line
CompiledEnv(profile) ==
    IF DirAt(profile.path).env.exists
    THEN FormatLines(ReadLines(DirAt(profile.path).env.text), config, << >>)
    ELSE [result |-> "ok", lines |-> << >>, data |-> << >>]

\* a variant of CompiledCompose that copies the template as it is
CompiledCompose_Unformatted(profile) == FormatOk(DirAt(profile.path).compose.text)

\* lines 162-175: compose.yaml formatted as a whole
CompiledCompose(profile) == Format(DirAt(profile.path).compose.text, config)

\* a variant of TemplateFailure that prints the message and goes on
TemplateFailure_NoExit(r, file) ==
    /\ pc' = pc
    /\ status' = status
    /\ stdout' = Message("UndefinedVariable", file, r.data)

\* the message of lines 152-156 and 169-173, or the traceback of an
\* exception that is not a KeyError
TemplateFailure(r, file) ==
    IF r.result = "KeyError"
    THEN Terminate("exited", Message("UndefinedVariable", file, r.data))
    ELSE Terminate("crashed", Message("Traceback", file, << r.result >>))

\* one iteration of the loop of lines 134-187
CompileProfile ==
    /\ pc = "compile"
    /\ idx <= Len(profile_paths)
    /\ LET profile == profile_paths[idx]
           has_compose == DirAt(profile.path).compose.exists
           e == CompiledEnv(profile)
           c == CompiledCompose(profile)
           out == CompiledComposeFile(oci_env_path, profile.name)
       IN  /\ init_script' = WithInitScript(init_script, profile)
           /\ env_output' = env_output \o e.lines
           /\ IF e.result # "ok"
              THEN /\ TemplateFailure(e, PathJoin(profile.path, << "pulp_config.env" >>))
                   /\ UNCHANGED << compose_files, compiled, writes, idx >>
              ELSE IF has_compose /\ c.result # "ok"
              THEN /\ TemplateFailure(c, PathJoin(profile.path, << "compose.yaml" >>))
                   /\ UNCHANGED << compose_files, compiled, writes, idx >>
              ELSE /\ idx' = idx + 1
                   /\ UNCHANGED << pc, status, stdout >>
                   /\ IF has_compose
                      THEN /\ compose_files' = Append(compose_files, out)
                           /\ compiled' = [compiled EXCEPT
                                             !.files = WriteFile(@, out, c.data)]
                           /\ writes' = Append(writes, out)
                      ELSE UNCHANGED << compose_files, compiled, writes >>
    /\ UNCHANGED << oci_env_path, env_file, dirs, user_preferences, config,
                    profile_paths, subprocess_calls, runs, compiled0, prev, changed >>

\* lines 189-195: the shared files, and the return to Compose.__init__
WriteOutputs ==
    /\ pc = "compile"
    /\ idx > Len(profile_paths)
    /\ LET init_sh == PathJoin(compiled_path(oci_env_path), << "init.sh" >>)
           combined == PathJoin(compiled_path(oci_env_path), << "combined.env" >>)
       IN  /\ compiled' = [compiled EXCEPT
                             !.files = WriteFile(WriteFile(@, init_sh,
                                                           JoinWith(init_script, "\n")),
                                                 combined, JoinWith(env_output, "\n"))]
           /\ writes' = writes \o << init_sh, combined >>
    /\ pc' = "ready"
    /\ UNCHANGED << oci_env_path, env_file, dirs, user_preferences, config,
                    profile_paths, init_script, env_output, compose_files, idx, status,
                    stdout, subprocess_calls, runs, compiled0, prev, changed >>

\* a variant of FileFlags that gives one "-f" for all the files
FileFlags_OneFlag(files) == IF files = << >> THEN << >> ELSE << << "-f" >> >> \o files

\* lines 225-227: "-f", file for each compiled file
RECURSIVE FileFlags(_)
FileFlags(files) ==
    IF files = << >> THEN << >>
    ELSE << << "-f" >>, Head(files) >> \o FileFlags(Tail(files))

\* lines 221-229: the command line of compose_command
ComposeCommandLine(cmd) ==
    << config[<< "COMPOSE_BINARY" >>] \o << "-compose" >>, << "-p" >>,
       config[<< "COMPOSE_PROJECT_NAME" >>] >> \o FileFlags(compose_files) \o cmd

\* Compose.compose_command(cmd, interactive, pipe_output)
ComposeCommand(cmd, interactive) ==
    /\ pc = "ready"
    /\ Len(subprocess_calls) < MaxCalls
    /\ subprocess_calls' =
          Append(subprocess_calls,
                 [method |-> "compose_command",
                  via |-> IF interactive THEN "call" ELSE "run",
                  args |-> cmd,
                  cmd |-> ComposeCommandLine(cmd)])
    /\ UNCHANGED << oci_env_path, env_file, dirs, compiled, pc, user_preferences, config,
                    profile_paths, init_script, env_output, compose_files, idx, status,
                    stdout, writes, runs, compiled0, prev, changed >>

\* lines 247-258: the command line of exec; service is "" for None
ExecCommandLine(args, service, no_cli) ==
    LET container == config[<< "COMPOSE_PROJECT_NAME" >>] \o << "_" >>
                       \o (IF service = << >> THEN config[<< "API_CONTAINER" >>]
                           ELSE service)
                       \o << "_", "1" >>
    IN  IF no_cli
        THEN << config[<< "COMPOSE_BINARY" >>], << "exec" >>, container >> \o args
        ELSE << config[<< "COMPOSE_BINARY" >>], << "exec" >>, << "-it" >>, container >>
                 \o args

\* Compose.exec(args, service, interactive, pipe_output)
Exec(args, service, no_cli, interactive) ==
    /\ pc = "ready"
    /\ Len(subprocess_calls) < MaxCalls
    /\ subprocess_calls' =
          Append(subprocess_calls,
                 [method |-> "exec",
                  via |-> IF interactive THEN "call" ELSE "run",
                  args |-> args,
                  cmd |-> ExecCommandLine(args, service, no_cli)])
    /\ UNCHANGED << oci_env_path, env_file, dirs, compiled, pc, user_preferences, config,
                    profile_paths, init_script, env_output, compose_files, idx, status,
                    stdout, writes, runs, compiled0, prev, changed >>

\* the calls the callers make
ComposeCalls ==
    { [cmd |-> << << "up" >> >>, interactive |-> TRUE],
      [cmd |-> << << "down" >>, << "-v" >> >>, interactive |-> FALSE] }

ExecCalls ==
    { [args |-> << << "bash" >> >>, service |-> << >>, no_cli |-> FALSE],
      [args |-> << << "ls" >>, << "/", "src" >> >>, service |-> << "db" >>, no_cli |-> TRUE] }

Next ==
    \/ GetConfig
    \/ ResolveProfiles
    \/ CompileProfile
    \/ WriteOutputs
    \/ \E c \in ComposeCalls : ComposeCommand(c.cmd, c.interactive)
    \/ \E c \in ExecCalls : Exec(c.args, c.service, c.no_cli, FALSE)

Spec == Init /\ [][Next]_vars

----------------------------------------------------------------------------
(* The tool invoked again and again on one run root                        *)

RunFileSystems ==
    { FileSystem(k) :
        k \in { k \in DirKinds :
                  /\ k[BaseDir] = "Full"
                  /\ k[ProfilesDir] = "Bare"
                  /\ k[LocalBaseDir] \in {"Absent", "Full"}
                  /\ k[LocalPbDir] \in {"Full", "VarC"}
                  /\ k[PluginPbDir] \in {"Full", "VarC"} } }

RunLists ==
    { << "p", "_", "b" >>, << "base" >>, << "p", "/", "b", ":", "p", "_", "b" >> }

InitRuns ==
    /\ oci_env_path = RunRoot
    /\ env_file \in EnvFiles(RunLists)
    /\ dirs \in RunFileSystems
    /\ FirstRun

\* the process has ended (or the caller is done with the object) and the
\* tool is invoked again
NewRun ==
    /\ pc \in {"ready", "exited", "crashed"}
    /\ runs < MaxRuns
    /\ runs' = runs + 1
    /\ compiled0' = compiled
    /\ prev' = [ok |-> pc = "ready", files |-> compose_files]
    /\ changed' = FALSE
    /\ pc' = "start"
    /\ user_preferences' = EmptyMap
    /\ config' = EmptyMap
    /\ profile_paths' = << >>
    /\ init_script' = << >>
    /\ env_output' = << >>
    /\ compose_files' = << >>
    /\ idx' = 0
    /\ status' = 0
    /\ stdout' = NoMessage
    /\ subprocess_calls' = << >>
    /\ writes' = << >>
    /\ UNCHANGED << oci_env_path, env_file, dirs, compiled >>

\* the user edits .compose.env or the profile directories between two runs
Reconfigure(file, fs) ==
    /\ pc = "start"
    /\ runs > 1
    /\ ~changed
    /\ << file, fs >> # << env_file, dirs >>
    /\ env_file' = file
    /\ dirs' = fs
    /\ changed' = TRUE
    /\ UNCHANGED << oci_env_path, compiled, pc, user_preferences, config, profile_paths,
                    init_script, env_output, compose_files, idx, status, stdout,
                    subprocess_calls, writes, runs, compiled0, prev >>

NextRuns ==
    \/ Next
    \/ NewRun
    \/ \E file \in EnvFiles(RunLists), fs \in RunFileSystems : Reconfigure(file, fs)

SpecRuns == InitRuns /\ [][NextRuns]_vars

----------------------------------------------------------------------------
(* get_config on free-form .compose.env files                              *)

EnvChars == {"#", "=", "'", "\"", " ", "\t", "\n", "API_HOST", "COMPOSE_CONTEXT"}

FreeTexts == UNION { [1..n -> EnvChars] : n \in 0..MaxFileLen }

AssignLines ==
    { pad \o k \o << "=" >> \o v \o << "\n" >> :
        pad \in { << >>, << " " >> },
        k \in { << "API_HOST" >>, << "MY_VAR" >>, << "OCI_ENV_DIRECTORY" >> },
        v \in { << "x" >>, << "'", "y", "'" >> } }

LineTexts ==
    { a \o b : a \in AssignLines, b \in AssignLines }
        \cup { a \o b \o c : a \in AssignLines, b \in AssignLines, c \in AssignLines }

BasePaths == { RunRoot, RunRoot \o << "/" >> }

InitEnv ==
    /\ oci_env_path \in BasePaths
    /\ env_file \in { File(t) : t \in FreeTexts \cup LineTexts }
    /\ dirs = FileSystem([d \in {BaseDir} |-> "Bare"])
    /\ FirstRun

NextEnv == GetConfig

SpecEnv == InitEnv /\ [][NextEnv]_vars

----------------------------------------------------------------------------
(* What the specification says of a line of .compose.env, stated without   *)
(* the operators above                                                     *)

\* s without its longest prefix and suffix made of chars
Stripped(s, chars) ==
    LET keep == {i \in 1..Len(s) : s[i] \notin chars}
    IN  IF keep = {} THEN << >>
        ELSE SubSeq(s, CHOOSE i \in keep : \A j \in keep : i <= j,
                       CHOOSE i \in keep : \A j \in keep : j <= i)

\* the line is a candidate key/value pair
Contributes(line) ==
    /\ line = << >> \/ line[1] # "#"
    /\ \E i \in 1..Len(line) : line[i] = "="

FirstEq(line) ==
    CHOOSE i \in 1..Len(line) : line[i] = "=" /\ \A j \in 1..(i - 1) : line[j] # "="

KeyText(line) == SubSeq(line, 1, FirstEq(line) - 1)
ValueText(line) == SubSeq(line, FirstEq(line) + 1, Len(line))

EnvLines == ReadLines(env_file.text)

\* the mapping holds exactly the pairs of the contributing lines, each key
\* and value stripped of kchars and vchars, a later line winning over an
\* earlier one with the same key
HoldsPairs(mapping, kchars, vchars) ==
    /\ DOMAIN mapping =
          { Stripped(KeyText(EnvLines[i]), kchars) :
              i \in {i \in 1..Len(EnvLines) : Contributes(EnvLines[i])} }
    /\ \A i \in 1..Len(EnvLines) :
          ( /\ Contributes(EnvLines[i])
            /\ \A j \in (i + 1)..Len(EnvLines) :
                  Contributes(EnvLines[j])
                     => Stripped(KeyText(EnvLines[j]), kchars)
                           # Stripped(KeyText(EnvLines[i]), kchars) )
          => /\ Stripped(KeyText(EnvLines[i]), kchars) \in DOMAIN mapping
             /\ mapping[Stripped(KeyText(EnvLines[i]), kchars)]
                   = Stripped(ValueText(EnvLines[i]), vchars)

Quotes == {"'", "\""}

\* C8, as stated: a line contributes a pair iff it does not start with "#"
\* and contains "="; key and value are the texts before and after the first
\* "=", with quotes and surrounding whitespace (blank, tab, newline) stripped
\* from both sides; other lines change nothing and no line raises an error.
C8_AsStated ==
    (env_file.exists /\ pc # "start")
        => /\ pc = "config" /\ status = 0
           /\ HoldsPairs(user_preferences, Quotes \cup Whitespace, Quotes \cup Whitespace)

\* C8, amended: a line contributes a pair iff it does not start with "#"
\* and contains "="; key and value are the texts before and after the first
\* "=", with quotes and blanks stripped from both sides of each and the
\* newline stripped from the value (a tab next to the key or the value
\* stays part of it); other lines change nothing and no line raises an
\* error.
C8_Amended ==
    (env_file.exists /\ pc # "start")
        => /\ pc = "config" /\ status = 0
           /\ HoldsPairs(user_preferences, Quotes \cup {" "}, Quotes \cup {" ", "\n"})

\* a file read with a quoted, padded pair, a comment and a line without "="
C8_Witness ==
    /\ pc = "config"
    /\ \E i \in 1..Len(EnvLines) :
          /\ Contributes(EnvLines[i])
          /\ Stripped(KeyText(EnvLines[i]), Quotes \cup {" "}) # KeyText(EnvLines[i])
          /\ Stripped(KeyText(EnvLines[i]), Quotes \cup {" "}) # << >>
    /\ \E i \in 1..Len(EnvLines) : ~Contributes(EnvLines[i])

----------------------------------------------------------------------------
(* The precedence of get_config                                            *)

\* the last segment of a path: its last run of characters other than "/"
LastSegment(path) ==
    LET keep == {i \in 1..Len(path) : path[i] # "/"}
        e == CHOOSE i \in keep : \A j \in keep : j <= i
        b == CHOOSE i \in 1..e :
                /\ \A j \in i..e : path[j] # "/"
                /\ i = 1 \/ path[i - 1] = "/"
    IN  IF keep = {} THEN << >> ELSE SubSeq(path, b, e)

ConstantKeys == { << "OCI_ENV_DIRECTORY" >>, << "COMPOSE_CONTEXT" >> }

\* the lines of .compose.env that assign key
Assigning(key) ==
    {i \in 1..Len(EnvLines) :
        /\ Contributes(EnvLines[i])
        /\ Stripped(KeyText(EnvLines[i]), Quotes \cup {" "}) = key}

AssignedKeys ==
    { Stripped(KeyText(EnvLines[i]), Quotes \cup {" "}) :
        i \in {i \in 1..Len(EnvLines) : Contributes(EnvLines[i])} }

\* the value of the last line that assigns key
LastAssigned(key) ==
    LET i == CHOOSE i \in Assigning(key) : \A j \in Assigning(key) : j <= i
    IN  Stripped(ValueText(EnvLines[i]), Quotes \cup {" ", "\n"})

\* C6: in the mapping get_config returns, OCI_ENV_DIRECTORY and
\* COMPOSE_CONTEXT carry the values computed from the base path even when
\* .compose.env assigns them, every other key assigned in .compose.env
\* carries the user's value (the last assignment of a repeated key), and
\* every remaining default key carries its default.
C6_Precedence ==
    pc = "config" =>
        /\ DOMAIN config
              = DOMAIN default_config(oci_env_path) \cup AssignedKeys \cup ConstantKeys
        /\ config[<< "OCI_ENV_DIRECTORY" >>] = LastSegment(oci_env_path)
        /\ config[<< "COMPOSE_CONTEXT" >>] = oci_env_path
        /\ \A k \in AssignedKeys \ ConstantKeys : config[k] = LastAssigned(k)
        /\ \A k \in DOMAIN default_config(oci_env_path) \ (AssignedKeys \cup ConstantKeys) :
              config[k] = default_config(oci_env_path)[k]

\* .compose.env assigns a constant, and assigns a default key twice with
\* different values
C6_Witness ==
    /\ pc = "config"
    /\ Assigning(<< "OCI_ENV_DIRECTORY" >>) # {}
    /\ \E i \in Assigning(<< "API_HOST" >>), j \in Assigning(<< "API_HOST" >>) :
          /\ i < j
          /\ Stripped(ValueText(EnvLines[i]), Quotes \cup {" ", "\n"})
                # Stripped(ValueText(EnvLines[j]), Quotes \cup {" ", "\n"})
    /\ config[<< "API_HOST" >>] # default_config(oci_env_path)[<< "API_HOST" >>]

----------------------------------------------------------------------------
(* Profile resolution                                                      *)

\* the k-th of the parts of s between occurrences of sep
Segment(s, sep, k) ==
    LET cuts == {i \in 1..Len(s) : s[i] = sep}
        cut(n) == IF n = 0 THEN 0
                  ELSE IF n > Cardinality(cuts) THEN Len(s) + 1
                  ELSE CHOOSE c \in cuts : Cardinality({d \in cuts : d < c}) = n - 1
    IN  SubSeq(s, cut(k - 1) + 1, cut(k) - 1)

Segments(s, sep) ==
    [k \in 1..(Cardinality({i \in 1..Len(s) : s[i] = sep}) + 1) |-> Segment(s, sep, k)]

\* the configuration has been resolved in this run
Configured == pc # "start" /\ stdout.kind # "NoComposeEnv"

\* profile resolution has been done in this run, and has ended one way or the other
Resolved == Configured /\ pc # "config"

\* the entries of COMPOSE_PROFILE
Tokens == Segments(config[<< "COMPOSE_PROFILE" >>], ":")

ParentOfRunRoot == << "/", "w" >>
OwnDirName == << "oci_env" >>

\* the directory an entry of COMPOSE_PROFILE refers to
SourceDir(token) ==
    IF \E i \in 1..Len(token) : token[i] = "/"
    THEN ParentOfRunRoot \o << "/" >> \o Segment(token, "/", 1)
            \o << "/", "profiles", "/" >>
            \o SubSeq(token, Len(Segment(token, "/", 1)) + 2, Len(token))
    ELSE IF token = << >> THEN RunRoot \o << "/", "profiles" >>
    ELSE RunRoot \o << "/", "profiles", "/" >> \o token

MissingTokens == {k \in 1..Len(Tokens) : SourceDir(Tokens[k]) \notin DOMAIN dirs}

\* C2: if the directory of some entry of COMPOSE_PROFILE does not exist,
\* profile resolution ends the run with a non-zero status and reports such
\* an entry and the path tried for it; if the directory of every entry
\* exists, resolution does not fail.
C2_ProfileNotFound ==
    Resolved =>
        /\ MissingTokens # {} =>
              /\ pc = "exited"
              /\ status # 0
              /\ stdout.kind = "ProfileNotFound"
              /\ \E k \in MissingTokens :
                    /\ stdout.what = Tokens[k]
                    /\ AbsPath(stdout.where) = SourceDir(Tokens[k])
        /\ MissingTokens = {} =>
              /\ stdout.kind # "ProfileNotFound"
              /\ Len(profile_paths) = Len(Tokens) + 1

\* a run that stopped at a second entry of the plugin/name form, the first
\* entry's directory being there
C2_Witness ==
    /\ pc = "exited"
    /\ stdout.kind = "ProfileNotFound"
    /\ Len(Tokens) = 2
    /\ MissingTokens = {2}
    /\ \E i \in 1..Len(stdout.what) : stdout.what[i] = "/"

\* C3: once profile resolution has completed, the resolved sequence starts
\* with the base descriptor (source <run-root>/base, container path
\* /src/<own-dir-name>/base) and goes on with one descriptor for each entry
\* of COMPOSE_PROFILE, in the order of the list.
C3_BaseFirst ==
    (Resolved /\ stdout.kind # "ProfileNotFound") =>
        /\ Len(profile_paths) = Len(Tokens) + 1
        /\ profile_paths[1] =
              [path |-> RunRoot \o << "/", "base" >>,
               name |-> << "base" >>,
               container_path |-> << "/", "src", "/" >> \o OwnDirName \o << "/", "base" >>]
        /\ \A k \in 1..Len(Tokens) :
              /\ profile_paths[k + 1].name = Tokens[k]
              /\ AbsPath(profile_paths[k + 1].path) = SourceDir(Tokens[k])

\* a resolved list of two different entries, the first of them named base
C3_Witness ==
    /\ pc = "ready"
    /\ Len(profile_paths) = 3
    /\ profile_paths[2].name = << "base" >>
    /\ profile_paths[3].name # << "base" >>

----------------------------------------------------------------------------
(* Compilation and the orchestration driver                                *)

HasCompose(p) ==
    /\ AbsPath(p.path) \in DOMAIN dirs
    /\ dirs[AbsPath(p.path)].compose.exists

ComposeText(p) == dirs[AbsPath(p.path)].compose.text

\* .compiled/<sanitized-reference>_compose.yaml
ExpectedComposeFile(name) ==
    RunRoot \o << "/", ".compiled", "/" >>
        \o [i \in 1..Len(name) |-> IF name[i] = "/" THEN "_" ELSE name[i]]
        \o << "_compose.yaml" >>

\* the compiled files of the profiles of ps that have a compose.yaml
ExpectedComposeFiles(ps) ==
    LET with == SelectSeq(ps, HasCompose)
    IN  [i \in 1..Len(with) |-> ExpectedComposeFile(with[i].name)]

\* C7: compose_command runs [COMPOSE_BINARY + "-compose", "-p",
\* COMPOSE_PROJECT_NAME], then "-f", file for each compiled file in the
\* order of compilation, then the caller's arguments; the compiled files are
\* one path for each resolved profile that has a compose.yaml, in the order
\* of resolution.
C7_ComposeCommand ==
    /\ pc = "ready" => compose_files = ExpectedComposeFiles(profile_paths)
    /\ \A n \in 1..Len(subprocess_calls) :
          LET call == subprocess_calls[n]
              k == Len(compose_files)
          IN  call.method = "compose_command" =>
                 /\ Len(call.cmd) = 3 + 2 * k + Len(call.args)
                 /\ call.cmd[1] = config[<< "COMPOSE_BINARY" >>] \o << "-compose" >>
                 /\ call.cmd[2] = << "-p" >>
                 /\ call.cmd[3] = config[<< "COMPOSE_PROJECT_NAME" >>]
                 /\ \A i \in 1..k :
                       /\ call.cmd[2 + 2 * i] = << "-f" >>
                       /\ call.cmd[3 + 2 * i] = compose_files[i]
                 /\ \A j \in 1..Len(call.args) : call.cmd[3 + 2 * k + j] = call.args[j]

\* compose_command with two arguments over three profiles, one of them
\* without a compose.yaml
C7_Witness ==
    /\ pc = "ready"
    /\ Len(profile_paths) = 3
    /\ Len(compose_files) = 2
    /\ \E n \in 1..Len(subprocess_calls) :
          /\ subprocess_calls[n].method = "compose_command"
          /\ Len(subprocess_calls[n].args) = 2

FatalKinds == {"NoComposeEnv", "ProfileNotFound", "UndefinedVariable"}

\* C9: each of the three fatal errors ends the process at once with a
\* non-zero status: the step that detects it writes no file, after it
\* nothing of that run happens (no file of .compiled is written, no
\* subprocess is invoked), and a subprocess is invoked only after
\* configuration, profile resolution and compilation have all succeeded.
C9_FatalErrors ==
    /\ [](stdout.kind \in FatalKinds
            => pc = "exited" /\ status # 0 /\ subprocess_calls = << >>)
    /\ [](subprocess_calls # << >>
            => /\ pc = "ready" /\ status = 0 /\ stdout.kind = "none"
               /\ Len(profile_paths) = Len(Tokens) + 1
               /\ idx = Len(profile_paths) + 1
               /\ \E i \in 1..Len(writes) :
                     writes[i] = RunRoot \o << "/", ".compiled", "/", "combined.env" >>)
    /\ [][(stdout.kind = "none" /\ stdout'.kind \in FatalKinds)
             => compiled'.files = compiled.files /\ writes' = writes]_vars
    /\ [][(pc = "exited" /\ runs' = runs)
             => /\ pc' = "exited"
                /\ compiled' = compiled
                /\ subprocess_calls' = subprocess_calls]_vars

\* a run ended by an undefined variable after it had written a file
C9_Witness ==
    /\ pc = "exited"
    /\ stdout.kind = "UndefinedVariable"
    /\ writes # << >>

\* C10: the compiled compose files of a successful run are pairwise
\* distinct: no two descriptors write to the same file, the returned
\* sequence has no duplicate and no compiled file is written twice.
C10_DistinctFiles ==
    pc = "ready" =>
        /\ \A i, j \in 1..Len(compose_files) : i # j => compose_files[i] # compose_files[j]
        /\ \A i, j \in 1..Len(writes) : i # j => writes[i] # writes[j]

----------------------------------------------------------------------------
(* Undefined template variables                                            *)

\* the fields {KEY} of a template
Placeholders(text) ==
    { SubSeq(text, i + 1, j - 1) :
        << i, j >> \in
           { << i, j >> \in (1..Len(text)) \X (1..Len(text)) :
                /\ i + 1 < j
                /\ text[i] = "{" /\ text[j] = "}"
                /\ i = 1 \/ text[i - 1] # "{"
                /\ \A n \in (i + 1)..(j - 1) : text[n] \notin {"{", "}"} } }

Undefined(text) == {k \in Placeholders(text) : k \notin DOMAIN config}

\* compilation has been entered in this run and has ended
Finished ==
    /\ Resolved
    /\ stdout.kind # "ProfileNotFound"
    /\ pc \in {"ready", "exited", "crashed"}

Written == {writes[i] : i \in 1..Len(writes)}

\* C1, as stated: if the compose.yaml of some profile references a
\* placeholder whose key is absent from the mapping, the run ends with a
\* non-zero status after reporting the compose.yaml path and key of such a
\* profile, and the run has not written that profile's compiled file.
C1_AsStated ==
    (Finished /\ \E k \in 1..Len(profile_paths) :
                    /\ HasCompose(profile_paths[k])
                    /\ Undefined(ComposeText(profile_paths[k])) # {})
        => /\ pc = "exited" /\ status # 0
           /\ stdout.kind = "UndefinedVariable"
           /\ \E k \in 1..Len(profile_paths) :
                 /\ HasCompose(profile_paths[k])
                 /\ stdout.where = profile_paths[k].path \o << "/", "compose.yaml" >>
                 /\ stdout.what \in Undefined(ComposeText(profile_paths[k]))
                 /\ ExpectedComposeFile(profile_paths[k].name) \notin Written

\* the templates of profile p format without error
FormatsCleanly(p) ==
    /\ CompiledEnv(p).result = "ok"
    /\ HasCompose(p) => Format(ComposeText(p), config).result = "ok"

\* the compose.yaml of the k-th profile is the first template of the run
\* that fails, and fails on an undefined key
FirstFailure(k) ==
    /\ HasCompose(profile_paths[k])
    /\ Format(ComposeText(profile_paths[k]), config).result = "KeyError"
    /\ CompiledEnv(profile_paths[k]).result = "ok"
    /\ \A j \in 1..(k - 1) : FormatsCleanly(profile_paths[j])

\* C1, amended: a compose.yaml that references an undefined key ends the
\* run with a non-zero status; when it is the first template of the run
\* that fails to format, the run ends with status 1 after reporting that
\* compose.yaml path and key, and the step of the failing profile writes
\* nothing: the files written by the run are the compiled compose files of
\* the profiles before it (the failing profile's own compiled file among
\* them only when an earlier profile has the same sanitized reference).
C1_Amended ==
    Finished =>
        \A k \in 1..Len(profile_paths) :
            /\ (HasCompose(profile_paths[k])
                  /\ Undefined(ComposeText(profile_paths[k])) # {})
                  => pc \in {"exited", "crashed"} /\ status # 0
            /\ FirstFailure(k) =>
                  /\ pc = "exited" /\ status = 1
                  /\ stdout.kind = "UndefinedVariable"
                  /\ stdout.where = profile_paths[k].path \o << "/", "compose.yaml" >>
                  /\ stdout.what \in Undefined(ComposeText(profile_paths[k]))
                  /\ writes = ExpectedComposeFiles(SubSeq(profile_paths, 1, k - 1))

\* a run ended by the compose.yaml of its third profile, whose compiled
\* file the second profile had written
C1_Witness ==
    /\ Finished
    /\ Len(profile_paths) = 3
    /\ FirstFailure(3)
    /\ ExpectedComposeFile(profile_paths[3].name) \in Written

----------------------------------------------------------------------------
(* The compiled artifact set over several runs                             *)

InitShFile == RunRoot \o << "/", ".compiled", "/", "init.sh" >>
CombinedEnvFile == RunRoot \o << "/", ".compiled", "/", "combined.env" >>

\* the files a successful run over the profiles ps writes
ExpectedWritten(ps) ==
    {InitShFile, CombinedEnvFile}
        \cup {ExpectedComposeFile(ps[k].name) : k \in {k \in 1..Len(ps) : HasCompose(ps[k])}}

\* the lines of init.sh after the header: one for each profile with an init.sh
RECURSIVE ExpectedInitLines(_)
ExpectedInitLines(ps) ==
    IF ps = << >> THEN << >>
    ELSE (IF AbsPath(ps[1].path) \in DOMAIN dirs /\ dirs[AbsPath(ps[1].path)].init
          THEN << << "bash", " " >> \o ps[1].container_path
                    \o (IF Last(ps[1].container_path) = "/" THEN << "init.sh" >>
                        ELSE << "/", "init.sh" >>) >>
          ELSE << >>)
         \o ExpectedInitLines(Tail(ps))

\* the lines of combined.env: the formatted lines of each pulp_config.env
RECURSIVE ExpectedEnvLines(_)
ExpectedEnvLines(ps) ==
    IF ps = << >> THEN << >>
    ELSE CompiledEnv(ps[1]).lines \o ExpectedEnvLines(Tail(ps))

\* what the file f holds after a successful run over the profiles ps
ExpectedContent(f, ps) ==
    IF f = InitShFile THEN JoinWith(InitScriptHeader \o ExpectedInitLines(ps), "\n")
    ELSE IF f = CombinedEnvFile THEN JoinWith(ExpectedEnvLines(ps), "\n")
    ELSE LET from == {k \in 1..Len(ps) :
                         HasCompose(ps[k]) /\ ExpectedComposeFile(ps[k].name) = f}
             last == CHOOSE k \in from : \A j \in from : j <= k
         IN  Format(ComposeText(ps[last]), config).data

\* C4, as stated: after a successful run .compiled holds exactly init.sh,
\* combined.env and one compiled compose file for each profile of that run
\* that has a compose.yaml, with contents derived from that run's inputs;
\* no compiled file of a profile of an earlier run that is not in the last
\* run's list remains.
C4_AsStated ==
    pc = "ready" =>
        /\ DOMAIN compiled.files = ExpectedWritten(profile_paths)
        /\ \A f \in DOMAIN compiled.files :
              compiled.files[f] = ExpectedContent(f, profile_paths)

\* C4, amended: a successful run writes init.sh, combined.env and the
\* compiled compose file of each of its profiles that has a compose.yaml,
\* with contents derived from that run's inputs alone (where two profiles
\* share a sanitized reference, the later one's); it removes nothing, so
\* every other file of .compiled, such as the compiled compose file of a
\* profile of an earlier run, stays as it was.
C4_Amended ==
    pc = "ready" =>
        /\ Written = ExpectedWritten(profile_paths)
        /\ DOMAIN compiled.files = Written \cup DOMAIN compiled0.files
        /\ \A f \in Written : compiled.files[f] = ExpectedContent(f, profile_paths)
        /\ \A f \in DOMAIN compiled0.files \ Written :
              compiled.files[f] = compiled0.files[f]

\* a successful run after a successful run with another profile list,
\* whose compiled compose file is still there
C4_Witness ==
    /\ pc = "ready"
    /\ runs > 1
    /\ prev.ok
    /\ changed
    /\ \E f \in DOMAIN compiled.files : f \notin Written

\* C5: a second run on unchanged inputs, after a successful run, leaves
\* .compiled with the same files and the same contents and returns the same
\* sequence of compiled compose files.
C5_Idempotent ==
    (pc = "ready" /\ runs > 1 /\ prev.ok /\ ~changed)
        => /\ compiled = compiled0
           /\ compose_files = prev.files

\* a second successful run on unchanged inputs that compiled three profiles
C5_Witness ==
    /\ pc = "ready"
    /\ runs > 1
    /\ prev.ok
    /\ ~changed
    /\ Len(compose_files) = 3
    /\ compiled0.files # EmptyMap

====
